---------------------------- MODULE Spec2Model ----------------------------
(***************************************************************************)
(* Farcaster authentication plugin for Better Auth.                        *)
(*                                                                         *)
(* Server side: the request handlers of the core SIWF plugin               *)
(* (verify-signature, link, unlink), the miniapp plugin's link and the     *)
(* legacy plugin (/farcaster/initiate, /farcaster/verify with the          *)
(* VerificationTableNonceManager).  Every handler is a process that takes  *)
(* one step per await on the storage adapter, so requests interleave on    *)
(* the user, session and verification tables.                              *)
(*                                                                         *)
(* Client side: the useFarcasterSIWF hook with its interval timers and     *)
(* in-flight channel-status calls, over a discrete clock.                  *)
(***************************************************************************)
EXTENDS Integers, Sequences, FiniteSets, TLC

\* ------------------------------------------------------------- bounds
\* request slots (requests in flight at once), FIDs, nonces issued, clock range
MaxReq == 2
MaxFid == 2
MaxNonces == 2
MaxClock == 3
\* requests received in one run
MaxStarted == 2
\* hook: calls the page makes to the hook, channels created, requests
\* awaiting a response at once, clock range,
\* and the pollTimeout option (in seconds, scaled down from its default 300)
MaxCalls == 2
MaxChannels == 2
MaxInFlight == 2
MaxTime == 7
pollTimeout == 4

\* ---------------------------------------------------------- constants
\* `fid: null` / a findOne that finds nothing / an unset id.
NULL == 0
\* nonceLifetimeMs, in clock units of the model (one unit = 5 minutes).
nonceLifetime == 2
\* pollInterval, in seconds.
pollInterval == 2

ReqIds == 1..MaxReq
Fids == 1..MaxFid

\* Candidate profiles carried by a verify-signature body.  The empty string
\* stands for an absent or empty optional field (both are falsy in the code).
Profiles ==
    { [displayName |-> "",    pfpUrl |-> "",   username |-> ""],
      [displayName |-> "",    pfpUrl |-> "p2", username |-> "un"],
      [displayName |-> "dn1", pfpUrl |-> "p1", username |-> "un"],
      [displayName |-> "dn2", pfpUrl |-> "",   username |-> ""] }
NoProfile == [displayName |-> "", pfpUrl |-> "", username |-> ""]

\* What options.resolveUserData may return (all fields optional).
ResolvedData ==
    { [name |-> "", email |-> "", image |-> ""],
      [name |-> "rn", email |-> "re", image |-> "ri"] }

VARIABLES
    plugin,        \* which plugin the deployment runs: "core" or "legacy"
    uniqueFid,     \* whether the storage layer enforces user.fid unique
    users,         \* user table: sequence of records, id = index
    accounts,      \* account table: set of [userId, accountId]
    sessions,      \* session table: sequence of user ids, session id = index
    verification,  \* verification table: set of nonce records
    issued,        \* number of nonces generate() has issued so far
    clock,         \* server wall clock
    req,           \* the in-flight requests
    started,       \* number of requests received so far
    consumedTrue,  \* per nonce: how many consume() calls returned true
    lastDone,      \* summary of the most recently completed request
    \* ---- useFarcasterSIWF (one hook instance)
    now,               \* Date.now(), in seconds
    isCreatingChannel, isPolling, isVerifying, isSigningOut,
    error,             \* code of the error field, or "none"
    user, session,     \* NULL or set
    channelUrl, channelToken,   \* NULL or the channel
    pollingRef,        \* NULL or the interval timer it holds
    pollStartTime,     \* NULL or the time polling started
    cancelledRef,
    timers,            \* interval timers that have not been cleared
    channelsCreated,   \* channels the server has issued to this hook
    awaitingSession,   \* createChannel calls awaiting getSession
    awaitingChannel,   \* createChannel calls awaiting create-channel
    statusInFlight,    \* per channel: channel-status requests not yet settled
    verifyInFlight,    \* per channel: verify-signature requests not yet settled
    awaitingSignOut,   \* signOut calls awaiting the server
    attempt,           \* the current polling attempt, as an observer sees it
    isLinking,         \* useFarcasterCoreLink: link() has not finished
    calls              \* calls the page has made to the hook

serverVars ==
    << plugin, uniqueFid, users, accounts, sessions, verification, issued,
       clock, req, started, consumedTrue, lastDone >>

hookVars ==
    << now, isCreatingChannel, isPolling, isVerifying, isSigningOut, error,
       user, session, channelUrl, channelToken, pollingRef, pollStartTime,
       cancelledRef, timers, channelsCreated, awaitingSession, awaitingChannel,
       statusInFlight, verifyInFlight, awaitingSignOut, attempt, isLinking,
       calls >>

vars == << serverVars, hookVars >>

IdleReq ==
    [ kind |-> "idle", pc |-> "idle", fid |-> NULL, profile |-> NoProfile,
      sid |-> NULL, sfid |-> NULL, nonce |-> NULL, rec |-> NULL,
      recExp |-> NULL, relay |-> "none", relayFid |-> NULL,
      existing |-> NULL, user |-> NULL, respName |-> "", respImage |-> "",
      status |-> "none", message |-> "", session |-> NULL,
      cookie |-> FALSE, wroteUser |-> FALSE, sessionCalled |-> FALSE ]

NoneDone == [kind |-> "none", fid |-> NULL, sid |-> NULL, ok |-> FALSE]

\* A user that signed up through another method of the host framework.
PlainUser ==
    [ fid |-> NULL, name |-> "plain", image |-> "", email |-> "plain@example.com",
      emailVerified |-> FALSE ]

\* ------------------------------------------------------ storage adapter
UserIds == 1..Len(users)

\* adapter.findOne({model: "user", where: [{field: "fid", value: f}]}):
\* the first row that matches, or null.
FindUserNever(f) == NULL

FindUserByFid(f) ==
    IF \E i \in UserIds : users[i].fid = f
    THEN CHOOSE i \in UserIds :
            /\ users[i].fid = f
            /\ \A j \in UserIds : users[j].fid = f => i <= j
    ELSE NULL

\* The schema declares user.fid unique; a storage layer that enforces it
\* rejects a write that would give a second row the same fid.
UniqueViolation(id, f) ==
    /\ uniqueFid
    /\ f # NULL
    /\ \E j \in UserIds : j # id /\ users[j].fid = f

\* ------------------------------------------------------------ helpers
Fail(rq, status, message) ==
    [rq EXCEPT !.pc = "done", !.status = status, !.message = message]

LowestIdle(r) ==
    /\ req[r].kind = "idle"
    /\ \A q \in ReqIds : q < r => req[q].kind # "idle"

AllIdle == \A q \in ReqIds : req[q].kind = "idle"

\* `Farcaster User ${fid}` and `${fid}@farcaster.local`
DefaultName(f) == "Farcaster User " \o ToString(f)
DefaultEmail(f) == ToString(f) \o "@farcaster.local"

\* a || b for strings: the first non-empty one.
Or2(a, b) == IF a # "" THEN a ELSE b

\* ------------------------------------------- core plugin: verify-signature
\* client.verifySignInMessage as seen by the handler: the client cannot be
\* initialised, the call throws, or it returns {isError, success, fid}.
RelayOutcomes == {"initFailed", "throws", "isError", "notSuccess", "ok"}

\* if (verifyResult.isError || !verifyResult.success) throw UNAUTHORIZED
VerifyRejected(outcome) == outcome \in {"isError", "notSuccess"}

\* Mutant: the FID check is left out.
FidMismatchNever(verifiedFid, claimedFid) == FALSE

\* if (verifyResult.fid !== fid) throw UNAUTHORIZED "FID mismatch"
FidMismatch(verifiedFid, claimedFid) == verifiedFid # claimedFid

\* Mutant: the verification result is never looked at.
CoreVerifyUnchecked(rq, outcome, rf, catchMessage) ==
    [rq EXCEPT !.relay = outcome, !.relayFid = rf, !.pc = "findUser"]

\* The try block up to the FID check, with the catch that rethrows an
\* APIError and turns anything else into INTERNAL_SERVER_ERROR.
CoreVerify(rq, outcome, rf, catchMessage) ==
    LET seen == [rq EXCEPT !.relay = outcome, !.relayFid = rf] IN
    IF outcome = "initFailed"
    THEN Fail(seen, "INTERNAL_SERVER_ERROR",
              "Failed to initialize Farcaster auth client")
    ELSE IF outcome = "throws"
    THEN Fail(seen, "INTERNAL_SERVER_ERROR", catchMessage)
    ELSE IF VerifyRejected(outcome)
    THEN Fail(seen, "UNAUTHORIZED", "Invalid signature")
    ELSE IF FidMismatch(rf, rq.fid)
    THEN Fail(seen, "UNAUTHORIZED", "FID mismatch")
    ELSE [seen EXCEPT !.pc = "findUser"]

\* The signed messages a client may present: one per nonce the relay has
\* put into a channel, carrying it in its 'Nonce: ' line.
Messages == { [nonce |-> n] : n \in 1..MaxNonces }

\* extractNonceFromMessage(message): what follows 'Nonce: '
ExtractNonceFromMessage(m) == m.nonce

\* The handler receives the body; the nonce it hands to verifySignInMessage
\* is the one it reads out of the message.
VS_Start(r) ==
    /\ plugin = "core"
    /\ LowestIdle(r)
    /\ started' = started + 1
    /\ \E f \in Fids, p \in Profiles, m \in Messages :
          req' = [req EXCEPT ![r] =
                    [IdleReq EXCEPT !.kind = "verifySignature", !.pc = "verify",
                                    !.fid = f, !.profile = p,
                                    !.nonce = ExtractNonceFromMessage(m)]]
    /\ UNCHANGED << hookVars, plugin, uniqueFid, users, accounts, sessions, verification,
                    issued, clock, consumedTrue, lastDone >>

VS_Verify(r) ==
    /\ req[r].kind = "verifySignature"
    /\ req[r].pc = "verify"
    /\ \E o \in RelayOutcomes, rf \in Fids :
          /\ (o # "ok" => rf = 1)
          /\ req' = [req EXCEPT ![r] =
                        CoreVerify(req[r], o, IF o = "ok" THEN rf ELSE NULL,
                                   "Signature verification failed")]
    /\ UNCHANGED << hookVars, plugin, uniqueFid, users, accounts, sessions, verification,
                    issued, clock, started, consumedTrue, lastDone >>

\* Mutant: the avatar is never refreshed.
UpdateDataNameOnly(p) ==
    [ name |-> p.displayName # "", image |-> FALSE ]

\* updateData of the existing-user branch: name and image are written only
\* when the body carries a non-empty displayName / pfpUrl.
UpdateData(p) ==
    [ name |-> p.displayName # "", image |-> p.pfpUrl # "" ]

ApplyUpdate(u, p) ==
    [u EXCEPT !.name = IF UpdateData(p).name THEN p.displayName ELSE @,
              !.image = IF UpdateData(p).image THEN p.pfpUrl ELSE @]

VS_FindUser(r) ==
    /\ req[r].kind = "verifySignature"
    /\ req[r].pc = "findUser"
    /\ LET ex == FindUserByFid(req[r].fid)
           upd == UpdateData(req[r].profile) IN
       req' = [req EXCEPT ![r] =
                IF ex # NULL
                THEN [@ EXCEPT !.existing = ex, !.user = ex,
                               !.respName = users[ex].name,
                               !.respImage = users[ex].image,
                               !.pc = IF upd.name \/ upd.image
                                      THEN "update" ELSE "createSession"]
                ELSE [@ EXCEPT !.pc = "create"]]
    /\ UNCHANGED << hookVars, plugin, uniqueFid, users, accounts, sessions, verification,
                    issued, clock, started, consumedTrue, lastDone >>

\* adapter.update({model: "user", where: id = existingUser.id, update: updateData});
\* user = existingUser (the row as it was read).
VS_Update(r) ==
    /\ req[r].kind = "verifySignature"
    /\ req[r].pc = "update"
    /\ users' = [users EXCEPT ![req[r].existing] = ApplyUpdate(@, req[r].profile)]
    /\ req' = [req EXCEPT ![r].wroteUser = TRUE, ![r].pc = "createSession"]
    /\ UNCHANGED << hookVars, plugin, uniqueFid, accounts, sessions, verification,
                    issued, clock, started, consumedTrue, lastDone >>

\* Mutant: the username is not among the fallbacks of the name.
NewCoreUserNoUsername(f, p, d) ==
    [ fid |-> f,
      email |-> Or2(d.email, DefaultEmail(f)),
      name |-> Or2(d.name, Or2(p.displayName, DefaultName(f))),
      image |-> Or2(d.image, p.pfpUrl),
      emailVerified |-> TRUE ]

\* The row adapter.create is given for a FID seen for the first time.
NewCoreUser(f, p, d) ==
    [ fid |-> f,
      email |-> Or2(d.email, DefaultEmail(f)),
      name |-> Or2(d.name, Or2(p.displayName, Or2(p.username, DefaultName(f)))),
      image |-> Or2(d.image, p.pfpUrl),
      emailVerified |-> TRUE ]

VS_Create(r) ==
    /\ req[r].kind = "verifySignature"
    /\ req[r].pc = "create"
    /\ \E d \in ResolvedData :
          IF UniqueViolation(NULL, req[r].fid)
          THEN /\ req' = [req EXCEPT ![r] =
                            Fail(@, "INTERNAL_SERVER_ERROR",
                                 "Signature verification failed")]
               /\ users' = users
          ELSE LET u == NewCoreUser(req[r].fid, req[r].profile, d) IN
               /\ users' = Append(users, u)
               /\ req' = [req EXCEPT ![r].user = Len(users) + 1,
                                     ![r].respName = u.name,
                                     ![r].respImage = u.image,
                                     ![r].wroteUser = TRUE,
                                     ![r].pc = "createSession"]
    /\ UNCHANGED << hookVars, plugin, uniqueFid, accounts, sessions, verification,
                    issued, clock, started, consumedTrue, lastDone >>

\* internalAdapter.createSession(user.id, false): a session, null, or a throw.
SessionOutcomes == {"ok", "null", "throws"}

ReuseSession(u) ==
    IF \E i \in 1..Len(sessions) : sessions[i] = u THEN sessions
    ELSE Append(sessions, u)

\* internalAdapter.createSession(user.id, false): the session table after it
\* has stored the session it returns.
CreateSession(u) == Append(sessions, u)

SessionMissingNever(o) == FALSE

\* if (!session)
SessionMissing(o) == o = "null"

\* createSession, the null check, setSessionCookie and the response.
VS_CreateSession(r) ==
    /\ req[r].kind = "verifySignature"
    /\ req[r].pc = "createSession"
    /\ \E o \in SessionOutcomes :
          IF o = "throws" \/ SessionMissing(o)
          THEN /\ sessions' = sessions
               /\ req' = [req EXCEPT ![r] =
                            Fail([@ EXCEPT !.sessionCalled = TRUE],
                                 "INTERNAL_SERVER_ERROR",
                                 IF o = "throws" THEN "Signature verification failed"
                                 ELSE "Failed to create session")]
          ELSE /\ sessions' = IF o = "ok" THEN CreateSession(req[r].user)
                              ELSE sessions
               /\ req' = [req EXCEPT ![r].sessionCalled = TRUE,
                                     ![r].session =
                                         IF o = "ok"
                                         THEN Len(CreateSession(req[r].user))
                                         ELSE NULL,
                                     ![r].cookie = TRUE,
                                     ![r].status = "OK",
                                     ![r].pc = "done"]
    /\ UNCHANGED << hookVars, plugin, uniqueFid, users, accounts, verification,
                    issued, clock, started, consumedTrue, lastDone >>


\* ------------------------------------------------ core plugin: link, unlink
\* sessionMiddleware: the request runs in the session of an existing user,
\* and session.user is that user's row as read when the request arrives.
L_Start(r) ==
    /\ plugin = "core"
    /\ LowestIdle(r)
    /\ started' = started + 1
    /\ \E f \in Fids, u \in UserIds :
          req' = [req EXCEPT ![r] =
                    [IdleReq EXCEPT !.kind = "link", !.pc = "verify",
                                    !.fid = f, !.sid = u, !.sfid = users[u].fid]]
    /\ UNCHANGED << hookVars, plugin, uniqueFid, users, accounts, sessions, verification,
                    issued, clock, consumedTrue, lastDone >>

L_Verify(r) ==
    /\ req[r].kind = "link"
    /\ req[r].pc = "verify"
    /\ \E o \in RelayOutcomes, rf \in Fids :
          /\ (o # "ok" => rf = 1)
          /\ req' = [req EXCEPT ![r] =
                        CoreVerify(req[r], o, IF o = "ok" THEN rf ELSE NULL,
                                   "Failed to link Farcaster account")]
    /\ UNCHANGED << hookVars, plugin, uniqueFid, users, accounts, sessions, verification,
                    issued, clock, started, consumedTrue, lastDone >>

\* Mutant: the collision check is left out.
LinkConflictNever(existingUser, sessionUserId) == FALSE

\* if (existingUser && existingUser.id !== session.user.id) throw BAD_REQUEST
LinkConflict(existingUser, sessionUserId) ==
    existingUser # NULL /\ existingUser # sessionUserId

LinkFind(rq) ==
    LET ex == FindUserByFid(rq.fid) IN
    IF LinkConflict(ex, rq.sid)
    THEN Fail([rq EXCEPT !.existing = ex], "BAD_REQUEST",
              "This Farcaster account is already linked to another user")
    ELSE [rq EXCEPT !.existing = ex, !.pc = "update"]

L_FindUser(r) ==
    /\ req[r].kind = "link"
    /\ req[r].pc = "findUser"
    /\ req' = [req EXCEPT ![r] = LinkFind(@)]
    /\ UNCHANGED << hookVars, plugin, uniqueFid, users, accounts, sessions, verification,
                    issued, clock, started, consumedTrue, lastDone >>

\* adapter.update({model: "user", where: id = session.user.id, update: {fid}})
\* and the response; a write the storage layer rejects is caught as a
\* non-APIError.
LinkUpdate(r, catchMessage) ==
    IF UniqueViolation(req[r].sid, req[r].fid)
    THEN /\ users' = users
         /\ req' = [req EXCEPT ![r] =
                      Fail(@, "INTERNAL_SERVER_ERROR", catchMessage)]
    ELSE /\ users' = [users EXCEPT ![req[r].sid].fid = req[r].fid]
         /\ req' = [req EXCEPT ![r].user = req[r].sid,
                               ![r].respName = users[req[r].sid].name,
                               ![r].respImage = users[req[r].sid].image,
                               ![r].wroteUser = TRUE,
                               ![r].status = "OK",
                               ![r].pc = "done"]

L_Update(r) ==
    /\ req[r].kind = "link"
    /\ req[r].pc = "update"
    /\ LinkUpdate(r, "Failed to link Farcaster account")
    /\ UNCHANGED << hookVars, plugin, uniqueFid, accounts, sessions, verification,
                    issued, clock, started, consumedTrue, lastDone >>

\* unlink: the guard on session.user.fid runs before the first await.
U_Start(r) ==
    /\ plugin = "core"
    /\ LowestIdle(r)
    /\ started' = started + 1
    /\ \E u \in UserIds :
          LET rq == [IdleReq EXCEPT !.kind = "unlink", !.sid = u,
                                    !.sfid = users[u].fid] IN
          req' = [req EXCEPT ![r] =
                    IF rq.sfid = NULL
                    THEN Fail(rq, "BAD_REQUEST", "No Farcaster account linked")
                    ELSE [rq EXCEPT !.pc = "update"]]
    /\ UNCHANGED << hookVars, plugin, uniqueFid, users, accounts, sessions, verification,
                    issued, clock, consumedTrue, lastDone >>

\* Mutant: unlink answers success without clearing the fid.
U_UpdateKeepsFid(r) ==
    /\ req[r].kind = "unlink"
    /\ req[r].pc = "update"
    /\ req' = [req EXCEPT ![r].user = req[r].sid,
                          ![r].wroteUser = TRUE,
                          ![r].status = "OK",
                          ![r].pc = "done"]
    /\ UNCHANGED << hookVars, plugin, uniqueFid, users, accounts, sessions, verification,
                    issued, clock, started, consumedTrue, lastDone >>

\* adapter.update({model: "user", where: id = session.user.id, update: {fid: null}})
U_Update(r) ==
    /\ req[r].kind = "unlink"
    /\ req[r].pc = "update"
    /\ users' = [users EXCEPT ![req[r].sid].fid = NULL]
    /\ req' = [req EXCEPT ![r].user = req[r].sid,
                          ![r].respName = users[req[r].sid].name,
                          ![r].respImage = users[req[r].sid].image,
                          ![r].wroteUser = TRUE,
                          ![r].status = "OK",
                          ![r].pc = "done"]
    /\ UNCHANGED << hookVars, plugin, uniqueFid, accounts, sessions, verification,
                    issued, clock, started, consumedTrue, lastDone >>

\* ------------------------------------------------- miniapp plugin: link
\* client.verifyJwt({token, domain}): a payload whose sub is the FID (or is
\* missing), an InvalidTokenError, or another throw.
JwtOutcomes == {"ok", "invalidToken", "throws"}

MiniappVerify(rq, outcome, sub) ==
    LET seen == [rq EXCEPT !.relay = outcome, !.relayFid = sub] IN
    IF outcome = "invalidToken"
    THEN Fail(seen, "UNAUTHORIZED", "Invalid or expired Farcaster token")
    ELSE IF outcome = "throws"
    THEN Fail(seen, "INTERNAL_SERVER_ERROR", "Failed to link Farcaster account")
    ELSE IF sub = NULL
    THEN Fail(seen, "BAD_REQUEST", "Invalid token: no FID found")
    ELSE [seen EXCEPT !.fid = sub, !.pc = "findUser"]

M_Start(r) ==
    /\ plugin = "core"
    /\ LowestIdle(r)
    /\ started' = started + 1
    /\ \E u \in UserIds :
          req' = [req EXCEPT ![r] =
                    [IdleReq EXCEPT !.kind = "miniappLink", !.pc = "verify",
                                    !.sid = u, !.sfid = users[u].fid]]
    /\ UNCHANGED << hookVars, plugin, uniqueFid, users, accounts, sessions, verification,
                    issued, clock, consumedTrue, lastDone >>

M_Verify(r) ==
    /\ req[r].kind = "miniappLink"
    /\ req[r].pc = "verify"
    /\ \E o \in JwtOutcomes, sub \in Fids \cup {NULL} :
          /\ (o # "ok" => sub = NULL)
          /\ req' = [req EXCEPT ![r] = MiniappVerify(req[r], o, sub)]
    /\ UNCHANGED << hookVars, plugin, uniqueFid, users, accounts, sessions, verification,
                    issued, clock, started, consumedTrue, lastDone >>

M_FindUser(r) ==
    /\ req[r].kind = "miniappLink"
    /\ req[r].pc = "findUser"
    /\ req' = [req EXCEPT ![r] = LinkFind(@)]
    /\ UNCHANGED << hookVars, plugin, uniqueFid, users, accounts, sessions, verification,
                    issued, clock, started, consumedTrue, lastDone >>

M_Update(r) ==
    /\ req[r].kind = "miniappLink"
    /\ req[r].pc = "update"
    /\ LinkUpdate(r, "Failed to link Farcaster account")
    /\ UNCHANGED << hookVars, plugin, uniqueFid, accounts, sessions, verification,
                    issued, clock, started, consumedTrue, lastDone >>


\* ------------------------------------- legacy plugin: nonce manager, verify
\* A nonce identifier n >= 1 stands for the string "farcaster-nonce:<cuid n>";
\* MalformedNonce stands for a string without that prefix.
MalformedNonce == 0 - 1
NonceIds == 1..MaxNonces
ClientNonces == NonceIds \cup {MalformedNonce}

\* nonce.startsWith('farcaster-nonce:')
HasNoncePrefix(n) == n >= 1

\* VerificationTableNonceManager.generate(), called by /farcaster/initiate.
Initiate ==
    /\ plugin = "legacy"
    /\ issued < MaxNonces
    /\ issued' = issued + 1
    /\ verification' = verification \cup
          { [id |-> issued + 1, identifier |-> issued + 1, value |-> "active",
             expiresAt |-> clock + nonceLifetime] }
    /\ UNCHANGED << hookVars, plugin, uniqueFid, users, accounts, sessions, clock, req,
                    started, consumedTrue, lastDone >>

\* Date.now() moves on.
Tick ==
    /\ plugin = "legacy"
    /\ clock < MaxClock
    /\ clock' = clock + 1
    /\ UNCHANGED << hookVars, plugin, uniqueFid, users, accounts, sessions, verification,
                    issued, req, started, consumedTrue, lastDone >>

AfterConsumeUnchecked(rq, isValid) == [rq EXCEPT !.pc = "verify"]

\* const isValid = await manager.consume(nonceFromClient);
\* if (!isValid) throw new APIError("UNAUTHORIZED", ...)
AfterConsume(rq, isValid) ==
    IF ~isValid THEN Fail(rq, "UNAUTHORIZED", "Invalid or expired nonce.")
    ELSE [rq EXCEPT !.pc = "verify"]

\* /farcaster/verify up to consume()'s prefix check, which runs before the
\* first await.
LG_Start(r) ==
    /\ plugin = "legacy"
    /\ LowestIdle(r)
    /\ started' = started + 1
    /\ \E n \in ClientNonces :
          LET rq == [IdleReq EXCEPT !.kind = "legacyVerify", !.nonce = n] IN
          req' = [req EXCEPT ![r] =
                    IF ~HasNoncePrefix(n)
                    THEN AfterConsume(rq, FALSE)
                    ELSE [rq EXCEPT !.pc = "consumeFind"]]
    /\ UNCHANGED << hookVars, plugin, uniqueFid, users, accounts, sessions, verification,
                    issued, clock, consumedTrue, lastDone >>

\* consume(): adapter.findOne({model: "verification", where: identifier = nonce})
LG_ConsumeFind(r) ==
    /\ req[r].kind = "legacyVerify"
    /\ req[r].pc = "consumeFind"
    /\ LET found == { v \in verification : v.identifier = req[r].nonce } IN
       req' = [req EXCEPT ![r] =
                IF found = {}
                THEN AfterConsume(@, FALSE)
                ELSE LET v == CHOOSE v \in found : TRUE IN
                     [@ EXCEPT !.rec = v.id, !.recExp = v.expiresAt,
                               !.pc = "consumeDelete"]]
    /\ UNCHANGED << hookVars, plugin, uniqueFid, users, accounts, sessions, verification,
                    issued, clock, started, consumedTrue, lastDone >>

NonceExpiredNever(at, expiresAt) == FALSE

\* if (new Date() > new Date(verificationRecord.expiresAt)) return false
NonceExpired(at, expiresAt) == at > expiresAt

\* consume(): adapter.delete({where: id = verificationRecord.id}), then the
\* expiry check on the record that was read; deleting a row that is already
\* gone deletes nothing.
LG_ConsumeDelete(r) ==
    /\ req[r].kind = "legacyVerify"
    /\ req[r].pc = "consumeDelete"
    /\ verification' = { v \in verification : v.id # req[r].rec }
    /\ req' = [req EXCEPT ![r] =
                 AfterConsume(@, ~NonceExpired(clock, req[r].recExp))]
    /\ consumedTrue' = IF NonceExpired(clock, req[r].recExp) THEN consumedTrue
                       ELSE [consumedTrue EXCEPT ![req[r].nonce] = @ + 1]
    /\ UNCHANGED << hookVars, plugin, uniqueFid, users, accounts, sessions, issued, clock,
                    started, lastDone >>

LegacyRelayOutcomes == {"throws", "isError", "notSuccess", "ok"}

\* Mutant: verifyResponse.success is not checked.
LegacyVerifyUnchecked(rq, outcome, rf) ==
    LET seen == [rq EXCEPT !.relay = outcome, !.relayFid = rf] IN
    IF outcome = "throws"
    THEN Fail(seen, "INTERNAL_SERVER_ERROR", "Farcaster sign-in failed")
    ELSE [seen EXCEPT !.fid = rf, !.pc = "findUser"]

\* The APIError thrown inside the try block is caught by the handler's own
\* catch (error: any), which rethrows everything as INTERNAL_SERVER_ERROR
\* with error.message.
LegacyVerify(rq, outcome, rf) ==
    LET seen == [rq EXCEPT !.relay = outcome, !.relayFid = rf] IN
    IF outcome = "throws"
    THEN Fail(seen, "INTERNAL_SERVER_ERROR", "Farcaster sign-in failed")
    ELSE IF outcome # "ok"
    THEN Fail(seen, "INTERNAL_SERVER_ERROR",
              "Farcaster sign-in verification failed.")
    ELSE [seen EXCEPT !.fid = rf, !.pc = "findUser"]

LG_Verify(r) ==
    /\ req[r].kind = "legacyVerify"
    /\ req[r].pc = "verify"
    /\ \E o \in LegacyRelayOutcomes, rf \in Fids :
          /\ (o # "ok" => rf = 1)
          /\ req' = [req EXCEPT ![r] =
                        LegacyVerify(req[r], o, IF o = "ok" THEN rf ELSE NULL)]
    /\ UNCHANGED << hookVars, plugin, uniqueFid, users, accounts, sessions, verification,
                    issued, clock, started, consumedTrue, lastDone >>

LG_FindUser(r) ==
    /\ req[r].kind = "legacyVerify"
    /\ req[r].pc = "findUser"
    /\ LET ex == FindUserByFid(req[r].fid) IN
       req' = [req EXCEPT ![r] =
                IF ex # NULL
                THEN [@ EXCEPT !.existing = ex, !.user = ex,
                               !.respName = users[ex].name,
                               !.respImage = users[ex].image,
                               !.pc = "createSession"]
                ELSE [@ EXCEPT !.pc = "create"]]
    /\ UNCHANGED << hookVars, plugin, uniqueFid, users, accounts, sessions, verification,
                    issued, clock, started, consumedTrue, lastDone >>

NewLegacyUser(f) ==
    [ fid |-> f,
      email |-> ToString(f) \o "@farcaster.emails",
      name |-> "Farcaster User ID: " \o ToString(f),
      image |-> "",
      emailVerified |-> FALSE ]

\* internalAdapter.createUser(...) and internalAdapter.createAccount(...)
LG_Create(r) ==
    /\ req[r].kind = "legacyVerify"
    /\ req[r].pc = "create"
    /\ IF UniqueViolation(NULL, req[r].fid)
       THEN /\ req' = [req EXCEPT ![r] =
                         Fail(@, "INTERNAL_SERVER_ERROR", "Farcaster sign-in failed")]
            /\ UNCHANGED << users, accounts >>
       ELSE LET u == NewLegacyUser(req[r].fid) IN
            /\ users' = Append(users, u)
            /\ accounts' = accounts \cup
                  { [userId |-> Len(users) + 1, accountId |-> req[r].fid] }
            /\ req' = [req EXCEPT ![r].user = Len(users) + 1,
                                  ![r].respName = u.name,
                                  ![r].respImage = u.image,
                                  ![r].wroteUser = TRUE,
                                  ![r].pc = "createSession"]
    /\ UNCHANGED << hookVars, plugin, uniqueFid, sessions, verification, issued, clock,
                    started, consumedTrue, lastDone >>

\* internalAdapter.createSession(user.id, ctx), setSessionCookie and the
\* response.  A null session is not checked: reading its token throws, and
\* the catch answers INTERNAL_SERVER_ERROR.
LG_CreateSession(r) ==
    /\ req[r].kind = "legacyVerify"
    /\ req[r].pc = "createSession"
    /\ \E o \in SessionOutcomes :
          IF o = "ok"
          THEN /\ sessions' = Append(sessions, req[r].user)
               /\ req' = [req EXCEPT ![r].sessionCalled = TRUE,
                                     ![r].session = Len(sessions) + 1,
                                     ![r].cookie = TRUE,
                                     ![r].status = "OK",
                                     ![r].pc = "done"]
          ELSE /\ sessions' = sessions
               /\ req' = [req EXCEPT ![r] =
                            Fail([@ EXCEPT !.sessionCalled = TRUE],
                                 "INTERNAL_SERVER_ERROR", "Farcaster sign-in failed")]
    /\ UNCHANGED << hookVars, plugin, uniqueFid, users, accounts, verification,
                    issued, clock, started, consumedTrue, lastDone >>

\* ------------------------------------------------ React hook: useFarcasterSIWF
\* One instance of the hook.  Every await of the hook's callbacks is a point
\* where the call waits for its response; the response may arrive at any
\* later time, also after later timer ticks.  The server vars are not touched:
\* a response is any of the outcomes the client call can produce.
Channels == 1..MaxChannels

\* What an observer records of the polling attempt in progress: when it
\* started, whether it has been left alone since (not cancelled, reset or
\* signed out, and every status check answered "pending"), and when
\* CHANNEL_TIMEOUT was reported, and whether cancel() was called while it
\* was polling.
NoAttempt ==
    [start |-> NULL, clean |-> FALSE, timeoutAt |-> NULL, cancelled |-> FALSE]

Disturbed == [attempt EXCEPT !.clean = FALSE]

HookInit ==
    /\ now = 1
    /\ isCreatingChannel = FALSE
    /\ isPolling = FALSE
    /\ isVerifying = FALSE
    /\ isSigningOut = FALSE
    /\ error = "none"
    /\ user = NULL
    /\ session = NULL
    /\ channelUrl = NULL
    /\ channelToken = NULL
    /\ pollingRef = NULL
    /\ pollStartTime = NULL
    /\ cancelledRef = FALSE
    /\ timers = {}
    /\ channelsCreated = 0
    /\ awaitingSession = 0
    /\ awaitingChannel = 0
    /\ statusInFlight = [c \in Channels |-> 0]
    /\ verifyInFlight = [c \in Channels |-> 0]
    /\ awaitingSignOut = 0
    /\ attempt = NoAttempt
    /\ isLinking = FALSE
    /\ calls = 0

\* Mutant: stopPolling() forgets setIsPolling(false).
StopPollingKeepsFlag(ts) ==
    /\ timers' = { t \in ts : t.ch # pollingRef }
    /\ pollingRef' = NULL
    /\ pollStartTime' = NULL
    /\ isPolling' = isPolling

\* stopPolling(): clearInterval(pollingRef.current) clears the timer the ref
\* holds, and no other; ts is the set of timers before the call.
StopPolling(ts) ==
    /\ timers' = { t \in ts : t.ch # pollingRef }
    /\ pollingRef' = NULL
    /\ pollStartTime' = NULL
    /\ isPolling' = FALSE

\* createChannel(), up to its first await
H_CreateChannel ==
    /\ calls < MaxCalls
    /\ calls' = calls + 1
    /\ ~(user # NULL /\ session # NULL)
    /\ awaitingSession + awaitingChannel < MaxInFlight
    /\ isCreatingChannel' = TRUE
    /\ error' = "none"
    /\ cancelledRef' = FALSE
    /\ awaitingSession' = awaitingSession + 1
    /\ UNCHANGED << serverVars, isLinking, now, isPolling, isVerifying, isSigningOut, user,
                    session, channelUrl, channelToken, pollingRef, pollStartTime,
                    timers, channelsCreated, awaitingChannel, statusInFlight,
                    verifyInFlight, awaitingSignOut, attempt >>

SessionOutcomesSeen == {"session", "none", "throws"}

ReturnsEarlyNever(resp) == FALSE

\* if (sessionResponse.data && sessionResponse.data.session) { ...; return null }
ReturnsEarly(resp) == resp = "session"

\* createChannel(): getSession() has settled
H_SessionSettle ==
    /\ awaitingSession > 0
    /\ awaitingSession' = awaitingSession - 1
    /\ \E resp \in SessionOutcomesSeen :
          IF resp = "throws"
          THEN /\ error' = "UNKNOWN"
               /\ isCreatingChannel' = FALSE
               /\ UNCHANGED << user, session, awaitingChannel >>
          ELSE /\ IF resp = "session"
                  THEN user' = 1 /\ session' = 1
                  ELSE UNCHANGED << user, session >>
               /\ IF ReturnsEarly(resp)
                  THEN /\ isCreatingChannel' = FALSE
                       /\ UNCHANGED awaitingChannel
                  ELSE /\ awaitingChannel' = awaitingChannel + 1
                       /\ UNCHANGED isCreatingChannel
               /\ UNCHANGED error
    /\ UNCHANGED << serverVars, isLinking, calls, now, isPolling, isVerifying, isSigningOut,
                    channelUrl, channelToken, pollingRef, pollStartTime,
                    cancelledRef, timers, channelsCreated, statusInFlight,
                    verifyInFlight, awaitingSignOut, attempt >>

ChannelOutcomes == {"channel", "error", "throws"}

\* createChannel(): farcaster.createChannel({}) has settled; on success the
\* interval timer is installed and its first tick is one pollInterval away.
H_ChannelSettle ==
    /\ awaitingChannel > 0
    /\ awaitingChannel' = awaitingChannel - 1
    /\ isCreatingChannel' = FALSE
    /\ \E resp \in ChannelOutcomes :
          CASE resp = "channel" ->
                 LET c == channelsCreated + 1 IN
                 /\ channelsCreated < MaxChannels
                 /\ channelsCreated' = c
                 /\ channelUrl' = c
                 /\ channelToken' = c
                 /\ isPolling' = TRUE
                 /\ pollStartTime' = now
                 /\ pollingRef' = c
                 /\ timers' = timers \cup { [ch |-> c, nextFire |-> now + pollInterval] }
                 /\ attempt' = [start |-> now, clean |-> ~cancelledRef,
                              timeoutAt |-> NULL, cancelled |-> FALSE]
                 /\ UNCHANGED error
            [] resp = "error" ->
                 /\ error' = "NETWORK_ERROR"
                 /\ UNCHANGED << channelsCreated, channelUrl, channelToken, isPolling,
                                 pollStartTime, pollingRef, timers, attempt >>
            [] OTHER ->
                 /\ error' = "UNKNOWN"
                 /\ UNCHANGED << channelsCreated, channelUrl, channelToken, isPolling,
                                 pollStartTime, pollingRef, timers, attempt >>
    /\ UNCHANGED << serverVars, isLinking, calls, now, isVerifying, isSigningOut, user, session,
                    cancelledRef, awaitingSession, statusInFlight, verifyInFlight,
                    awaitingSignOut >>

TimedOutLate(start, t) ==
    start # NULL /\ t - start > pollTimeout + pollInterval

\* pollStartTime.current && Date.now() - pollStartTime.current > pollTimeout
TimedOut(start, t) ==
    start # NULL /\ t - start > pollTimeout

\* One run of the interval callback, up to its first await.  The timer stays
\* armed unless stopPolling() clears it.
H_Tick(t) ==
    /\ t \in timers
    /\ t.nextFire = now
    /\ LET rearmed == (timers \ {t}) \cup { [t EXCEPT !.nextFire = now + pollInterval] } IN
       IF cancelledRef
       THEN /\ StopPolling(rearmed)
            /\ UNCHANGED << error, channelUrl, channelToken, statusInFlight, attempt >>
       ELSE IF TimedOut(pollStartTime, now)
       THEN /\ StopPolling(rearmed)
            /\ error' = "CHANNEL_TIMEOUT"
            /\ channelUrl' = NULL
            /\ channelToken' = NULL
            /\ attempt' = [attempt EXCEPT !.timeoutAt = now]
            /\ UNCHANGED statusInFlight
       ELSE /\ statusInFlight[t.ch] < MaxInFlight
            /\ statusInFlight' = [statusInFlight EXCEPT ![t.ch] = @ + 1]
            /\ timers' = rearmed
            /\ UNCHANGED << pollingRef, pollStartTime, isPolling, error,
                            channelUrl, channelToken, attempt >>
    /\ UNCHANGED << serverVars, isLinking, calls, now, isCreatingChannel, isVerifying, isSigningOut,
                    user, session, cancelledRef, channelsCreated, awaitingSession,
                    awaitingChannel, verifyInFlight, awaitingSignOut >>


\* What channelStatus(...) may come back with: a status (pending, completed
\* with everything, completed without the fid), an error that does or does
\* not say 'expired', or a throw.
StatusOutcomes == {"pending", "partial", "failed", "expired", "completed", "throws"}

\* statusResponse.data of an outcome that carries a status
StatusData(resp) ==
    [ state |-> IF resp = "pending" THEN "pending" ELSE "completed",
      message |-> resp # "pending",
      signature |-> resp # "pending",
      fid |-> resp = "completed" ]

\* Mutant: the state alone decides.
CompletedStateOnly(status) == status.state = "completed"

\* status.state === 'completed' && status.message && status.signature && status.fid
Completed(status) ==
    /\ status.state = "completed"
    /\ status.message
    /\ status.signature
    /\ status.fid

\* The interval callback after channelStatus(...) has settled for channel c
\* with response resp.  "failed" is an error whose message does not contain
\* 'expired'.
StatusSettled(c, resp) ==
    /\ statusInFlight[c] > 0
    /\ statusInFlight' = [statusInFlight EXCEPT ![c] = @ - 1]
    /\   CASE resp = "failed" ->
                 UNCHANGED << timers, pollingRef, pollStartTime, isPolling, error,
                              channelUrl, channelToken, isVerifying, verifyInFlight,
                              attempt >>
            [] resp = "expired" ->
                 /\ StopPolling(timers)
                 /\ error' = "CHANNEL_EXPIRED"
                 /\ channelUrl' = NULL
                 /\ channelToken' = NULL
                 /\ attempt' = Disturbed
                 /\ UNCHANGED << isVerifying, verifyInFlight >>
            [] resp = "throws" ->
                 /\ StopPolling(timers)
                 /\ error' = "POLLING_FAILED"
                 /\ channelUrl' = NULL
                 /\ channelToken' = NULL
                 /\ isVerifying' = FALSE
                 /\ attempt' = Disturbed
                 /\ UNCHANGED verifyInFlight
            [] OTHER ->
                 IF Completed(StatusData(resp))
                 THEN /\ verifyInFlight[c] < MaxInFlight
                      /\ StopPolling(timers)
                      /\ isVerifying' = TRUE
                      /\ verifyInFlight' = [verifyInFlight EXCEPT ![c] = @ + 1]
                      /\ attempt' = Disturbed
                      /\ UNCHANGED << error, channelUrl, channelToken >>
                 ELSE UNCHANGED << timers, pollingRef, pollStartTime, isPolling,
                                   error, channelUrl, channelToken, isVerifying,
                                   verifyInFlight, attempt >>
    /\ UNCHANGED << serverVars, isLinking, calls, now, isCreatingChannel,
                    isSigningOut, user, session, cancelledRef, channelsCreated,
                    awaitingSession, awaitingChannel, awaitingSignOut >>

H_StatusSettle(c) == \E resp \in StatusOutcomes : StatusSettled(c, resp)

\* What verifySignature(...) may lead to inside the try block: a response
\* with data, a response with an error, a throw (of the call, or of reading
\* a response that has neither), or a response with data whose onSuccess
\* callback throws.
VerifyOutcomes == {"ok", "error", "throws", "callbackThrows"}

\* The interval callback after verifySignature(...) has settled for channel c
\* with response resp: what it does to the hook.
VerifySettled(c, resp) ==
    /\ verifyInFlight[c] > 0
    /\ verifyInFlight' = [verifyInFlight EXCEPT ![c] = @ - 1]
    /\ isVerifying' = FALSE
    /\ channelUrl' = NULL
    /\ channelToken' = NULL
    /\ IF resp \in {"ok", "callbackThrows"}
       THEN user' = 1 /\ session' = 1
       ELSE UNCHANGED << user, session >>
    /\ IF resp = "ok"
       THEN UNCHANGED << timers, pollingRef, pollStartTime, isPolling, error,
                         attempt >>
       ELSE /\ StopPolling(timers)
            /\ error' = IF resp = "error" THEN "INVALID_SIGNATURE" ELSE "POLLING_FAILED"
            /\ attempt' = Disturbed
    /\ UNCHANGED << isLinking, calls, now, isCreatingChannel, isSigningOut,
                    cancelledRef,
                    channelsCreated, awaitingSession, awaitingChannel,
                    statusInFlight, awaitingSignOut >>

H_VerifySettle(c) ==
    /\ \E resp \in VerifyOutcomes : VerifySettled(c, resp)
    /\ UNCHANGED serverVars

\* cancel()
H_Cancel ==
    /\ calls < MaxCalls
    /\ calls' = calls + 1
    /\ cancelledRef' = TRUE
    /\ StopPolling(timers)
    /\ channelUrl' = NULL
    /\ channelToken' = NULL
    /\ error' = "none"
    /\ attempt' = [Disturbed EXCEPT !.cancelled = @ \/ isPolling]
    /\ UNCHANGED << serverVars, isLinking, now, isCreatingChannel, isVerifying, isSigningOut,
                    user, session, channelsCreated, awaitingSession,
                    awaitingChannel, statusInFlight, verifyInFlight,
                    awaitingSignOut >>

\* reset()
H_Reset ==
    /\ calls < MaxCalls
    /\ calls' = calls + 1
    /\ StopPolling(timers)
    /\ cancelledRef' = FALSE
    /\ isCreatingChannel' = FALSE
    /\ isVerifying' = FALSE
    /\ isSigningOut' = FALSE
    /\ error' = "none"
    /\ user' = NULL
    /\ session' = NULL
    /\ channelUrl' = NULL
    /\ channelToken' = NULL
    /\ attempt' = Disturbed
    /\ UNCHANGED << serverVars, isLinking, now, channelsCreated, awaitingSession,
                    awaitingChannel, statusInFlight, verifyInFlight,
                    awaitingSignOut >>

\* signOut(), up to its await
H_SignOut ==
    /\ calls < MaxCalls
    /\ calls' = calls + 1
    /\ awaitingSignOut < MaxInFlight
    /\ isSigningOut' = TRUE
    /\ StopPolling(timers)
    /\ awaitingSignOut' = awaitingSignOut + 1
    /\ attempt' = Disturbed
    /\ UNCHANGED << serverVars, isLinking, now, isCreatingChannel, isVerifying, error, user,
                    session, channelUrl, channelToken, cancelledRef,
                    channelsCreated, awaitingSession, awaitingChannel,
                    statusInFlight, verifyInFlight >>

\* signOut(): authClient.signOut() has settled, either way
H_SignOutSettle ==
    /\ awaitingSignOut > 0
    /\ awaitingSignOut' = awaitingSignOut - 1
    /\ user' = NULL
    /\ session' = NULL
    /\ error' = "none"
    /\ channelUrl' = NULL
    /\ channelToken' = NULL
    /\ isSigningOut' = FALSE
    /\ UNCHANGED << serverVars, isLinking, calls, now, isCreatingChannel, isPolling, isVerifying,
                    pollingRef, pollStartTime, cancelledRef, timers,
                    channelsCreated, awaitingSession, awaitingChannel,
                    statusInFlight, verifyInFlight, attempt >>

\* A second passes.  An interval timer fires when it is due, so time does not
\* pass while one is.
H_AdvanceTime ==
    /\ now < MaxTime
    /\ \A t \in timers : t.nextFire > now
    /\ now' = now + 1
    /\ UNCHANGED << serverVars, isLinking, calls, isCreatingChannel, isPolling, isVerifying,
                    isSigningOut, error, user, session, channelUrl, channelToken,
                    pollingRef, pollStartTime, cancelledRef, timers,
                    channelsCreated, awaitingSession, awaitingChannel,
                    statusInFlight, verifyInFlight, awaitingSignOut, attempt >>

NextHook ==
    \/ H_CreateChannel
    \/ H_SessionSettle
    \/ H_ChannelSettle
    \/ \E t \in timers : H_Tick(t)
    \/ \E c \in Channels : H_StatusSettle(c)
    \/ \E c \in Channels : H_VerifySettle(c)
    \/ H_Cancel
    \/ H_Reset
    \/ H_SignOut
    \/ H_SignOutSettle
    \/ H_AdvanceTime

\* ------------------------------------------------------ request lifecycle
Summary(rq) ==
    [ kind |-> rq.kind,
      fid |-> IF rq.kind = "unlink" THEN rq.sfid ELSE rq.fid,
      sid |-> rq.sid,
      ok |-> rq.status = "OK" ]

\* The response has been sent; the slot is free for the next request.
Finish(r) ==
    /\ req[r].pc = "done"
    /\ req' = [req EXCEPT ![r] = IdleReq]
    /\ UNCHANGED << hookVars, plugin, uniqueFid, users, accounts, sessions, verification,
                    issued, clock, started, consumedTrue, lastDone >>

\* The same, remembering what the request was (requests handled one at a time).
FinishSeq(r) ==
    /\ req[r].pc = "done"
    /\ req' = [req EXCEPT ![r] = IdleReq]
    /\ lastDone' = Summary(req[r])
    /\ UNCHANGED << hookVars, plugin, uniqueFid, users, accounts, sessions, verification,
                    issued, clock, started, consumedTrue >>

Plugins == {"core", "legacy"}

\* The user table a deployment starts from: a user who signed up through
\* another method, and a user created by an earlier Farcaster sign-in for
\* fid 1 that carried no profile and no resolved data.
InitialUsers(pl) ==
    IF pl = "core"
    THEN << PlainUser, NewCoreUser(1, NoProfile, [name |-> "", email |-> "", image |-> ""]) >>
    ELSE << PlainUser, NewLegacyUser(1) >>

InitialAccounts(pl) ==
    IF pl = "core" THEN {} ELSE { [userId |-> 2, accountId |-> 1] }

\* The verification table is shared with the rest of Better Auth: it starts
\* with a record of another feature, whose identifier does not carry the
\* nonce prefix.
ForeignRecord ==
    [id |-> MalformedNonce, identifier |-> MalformedNonce, value |-> "other",
     expiresAt |-> 1]

ServerInit ==
    /\ users = InitialUsers(plugin)
    /\ accounts = InitialAccounts(plugin)
    /\ sessions = << >>
    /\ verification = { ForeignRecord }
    /\ issued = 0
    /\ clock = 0
    /\ req = [r \in ReqIds |-> IdleReq]
    /\ started = 0
    /\ consumedTrue = [n \in NonceIds |-> 0]
    /\ lastDone = NoneDone

Init ==
    /\ plugin \in Plugins
    /\ uniqueFid \in BOOLEAN
    /\ ServerInit
    /\ HookInit

ReqStart(r) ==
    \/ VS_Start(r)
    \/ L_Start(r)
    \/ U_Start(r)
    \/ M_Start(r)
    \/ LG_Start(r)

ReqStep(r) ==
    \/ VS_Verify(r)
    \/ VS_FindUser(r)
    \/ VS_Update(r)
    \/ VS_Create(r)
    \/ VS_CreateSession(r)
    \/ L_Verify(r)
    \/ L_FindUser(r)
    \/ L_Update(r)
    \/ U_Update(r)
    \/ M_Verify(r)
    \/ M_FindUser(r)
    \/ M_Update(r)
    \/ LG_ConsumeFind(r)
    \/ LG_ConsumeDelete(r)
    \/ LG_Verify(r)
    \/ LG_FindUser(r)
    \/ LG_Create(r)
    \/ LG_CreateSession(r)

\* Requests interleave at every await.
Next ==
    \/ \E r \in ReqIds : started < MaxStarted /\ ReqStart(r)
    \/ \E r \in ReqIds : ReqStep(r)
    \/ \E r \in ReqIds : Finish(r)
    \/ Initiate
    \/ Tick

Spec == Init /\ [][Next]_vars

\* Requests handled one after another: a request starts only when no other
\* is in flight.
NextSeq ==
    \/ \E r \in ReqIds : started < MaxStarted /\ AllIdle /\ ReqStart(r)
    \/ \E r \in ReqIds : ReqStep(r)
    \/ \E r \in ReqIds : FinishSeq(r)
    \/ Initiate
    \/ Tick

SpecSeq == Init /\ [][NextSeq]_vars

\* The hook of a page served by a core deployment, the server at rest.
InitHook ==
    /\ plugin = "core"
    /\ uniqueFid = TRUE
    /\ ServerInit
    /\ HookInit

SpecHook == InitHook /\ [][NextHook]_vars


\* ======================================================== properties
IsDone(rq) == rq.pc = "done"

\* C1: for every nonce n issued by generate(), however the findOne and
\* delete steps of concurrent consume(n) calls interleave, at most one call
\* returns true.
C1_ConsumeTrueAtMostOnce ==
    \A n \in NonceIds : consumedTrue[n] <= 1

\* C2: no two distinct user records hold the same non-null fid, under any
\* interleaving of verify-signature, link and unlink requests.
C2_FidUnique ==
    \A i \in UserIds, j \in UserIds :
        (i # j /\ users[i].fid # NULL) => users[i].fid # users[j].fid

\* C3: in verify-signature, when the relay verification succeeds with a fid
\* different from the fid claimed in the body, the request ends with the
\* FID-mismatch error, having written no user record and created no session.
C3_FidMismatchAborts ==
    \A r \in ReqIds :
        ( /\ req[r].kind = "verifySignature"
          /\ req[r].relay = "ok"
          /\ req[r].relayFid # req[r].fid )
        => /\ IsDone(req[r])
           /\ req[r].status = "UNAUTHORIZED"
           /\ req[r].message = "FID mismatch"
           /\ ~req[r].wroteUser
           /\ ~req[r].sessionCalled
           /\ req[r].session = NULL
           /\ ~req[r].cookie

C3_Witness ==
    \E r \in ReqIds :
        /\ req[r].kind = "verifySignature"
        /\ req[r].relay = "ok"
        /\ req[r].relayFid # req[r].fid
        /\ IsDone(req[r])

\* C4: in verify-signature, when verifySignInMessage reports failure
\* (isError or success = false) or throws, the request ends in an error
\* without calling createSession, setting a cookie or writing a user record.
C4_FailedVerificationNoEffects ==
    \A r \in ReqIds :
        ( /\ req[r].kind = "verifySignature"
          /\ req[r].relay \in {"isError", "notSuccess", "throws"} )
        => /\ IsDone(req[r])
           /\ req[r].status \in {"UNAUTHORIZED", "INTERNAL_SERVER_ERROR"}
           /\ ~req[r].sessionCalled
           /\ req[r].session = NULL
           /\ ~req[r].cookie
           /\ ~req[r].wroteUser

C4_Witness ==
    \E r \in ReqIds :
        /\ req[r].kind = "verifySignature"
        /\ req[r].relay = "throws"
        /\ IsDone(req[r])
        /\ req[r].status = "INTERNAL_SERVER_ERROR"
        /\ ~req[r].sessionCalled

\* C5: a relay result of success = false and an error thrown by the relay
\* client both reach the caller as UNAUTHORIZED, in the core verify-signature
\* endpoint and in the legacy /farcaster/verify endpoint.
C5_VerificationFailureIsUnauthorized ==
    \A r \in ReqIds :
        ( /\ req[r].kind \in {"verifySignature", "legacyVerify"}
          /\ req[r].relay \in {"notSuccess", "throws"}
          /\ IsDone(req[r]) )
        => req[r].status = "UNAUTHORIZED"

\* C6: every createSession call of verify-signature and of /farcaster/verify
\* is preceded, in the same request, by a relay verification that returned
\* success (and, in the core flow, the claimed fid); only these two handlers
\* create sessions.
VerifiedRequest(rq) ==
    /\ rq.kind \in {"verifySignature", "legacyVerify"}
    /\ rq.relay = "ok"
    /\ rq.relayFid \in Fids
    /\ rq.relayFid = rq.fid

C6_SessionOnlyAfterVerification ==
    /\ [](\A r \in ReqIds :
            (req[r].sessionCalled \/ req[r].session # NULL)
            => VerifiedRequest(req[r]))
    /\ [][sessions' # sessions =>
            \E r \in ReqIds :
                /\ VerifiedRequest(req[r])
                /\ req[r].pc = "createSession"
                /\ req'[r].sessionCalled
                /\ sessions' = Append(sessions, req[r].user)]_vars

C6_Witness ==
    \E r \in ReqIds :
        /\ req[r].kind = "legacyVerify"
        /\ req[r].session # NULL
        /\ Len(sessions) = 1

\* C7 (as stated): after two consecutive successful verify-signature requests
\* for the same fid f, exactly one user has fid = f and its name and image
\* equal the displayName and pfpUrl of the second request, whatever they are.
SecondVerifyDone(r) ==
    /\ req[r].kind = "verifySignature"
    /\ IsDone(req[r])
    /\ req[r].status = "OK"
    /\ lastDone.kind = "verifySignature"
    /\ lastDone.ok
    /\ lastDone.fid = req[r].fid

UsersWithFid(f) == { i \in UserIds : users[i].fid = f }

C7_ProfileEqualsLatest ==
    \A r \in ReqIds :
        SecondVerifyDone(r) =>
            /\ Cardinality(UsersWithFid(req[r].fid)) = 1
            /\ \A i \in UsersWithFid(req[r].fid) :
                  /\ users[i].name = req[r].profile.displayName
                  /\ users[i].image = req[r].profile.pfpUrl

\* C7 (amended): after two consecutive successful verify-signature requests
\* for the same fid f, exactly one user has fid = f; its name equals the
\* second request's displayName when that is non-empty and is otherwise the
\* name it had before the second request, and likewise its image and pfpUrl.
C7_ProfileMergesLatest ==
    \A r \in ReqIds :
        SecondVerifyDone(r) =>
            /\ Cardinality(UsersWithFid(req[r].fid)) = 1
            /\ req[r].existing \in UsersWithFid(req[r].fid)
            /\ \A i \in UsersWithFid(req[r].fid) :
                  /\ users[i].name =
                        IF req[r].profile.displayName # ""
                        THEN req[r].profile.displayName ELSE req[r].respName
                  /\ users[i].image =
                        IF req[r].profile.pfpUrl # ""
                        THEN req[r].profile.pfpUrl ELSE req[r].respImage

C7_Witness ==
    \E r \in ReqIds :
        /\ SecondVerifyDone(r)
        /\ req[r].profile.displayName = "dn2"
        /\ req[r].profile.pfpUrl = ""
        /\ users[req[r].existing].name = "dn2"
        /\ users[req[r].existing].image = "p1"

\* C8: a link request for a fid that is bound to a user other than the
\* session's user fails with BAD_REQUEST "already linked to another user"
\* and leaves the fid of both users as it was (core and miniapp link).
LinkRefusedCase(rq) ==
    /\ rq.kind \in {"link", "miniappLink"}
    /\ rq.existing # NULL
    /\ rq.existing # rq.sid

C8_LinkConflictRefused ==
    \A r \in ReqIds :
        LinkRefusedCase(req[r]) =>
            /\ IsDone(req[r])
            /\ req[r].status = "BAD_REQUEST"
            /\ req[r].message =
                  "This Farcaster account is already linked to another user"
            /\ ~req[r].wroteUser
            /\ users[req[r].existing].fid = req[r].fid
            /\ users[req[r].sid].fid = req[r].sfid

C8_Witness ==
    \E r \in ReqIds :
        /\ LinkRefusedCase(req[r])
        /\ req[r].kind = "link"
        /\ req[r].status = "BAD_REQUEST"

\* C9: unlink by a user without fid fails with BAD_REQUEST "No Farcaster
\* account linked" and writes nothing; unlink by a user with fid = f succeeds
\* and leaves that user's fid null; and a link of the same f by a different
\* user right after that unlink succeeds and binds f to that user.
LinkAfterUnlink(r) ==
    /\ req[r].kind = "link"
    /\ IsDone(req[r])
    /\ req[r].relay = "ok"
    /\ req[r].relayFid = req[r].fid
    /\ lastDone.kind = "unlink"
    /\ lastDone.ok
    /\ lastDone.fid = req[r].fid
    /\ lastDone.sid # req[r].sid

C9_UnlinkThenLink ==
    \A r \in ReqIds :
        /\ (req[r].kind = "unlink" /\ req[r].sfid = NULL) =>
              /\ IsDone(req[r])
              /\ req[r].status = "BAD_REQUEST"
              /\ req[r].message = "No Farcaster account linked"
              /\ ~req[r].wroteUser
              /\ users[req[r].sid].fid = NULL
        /\ (req[r].kind = "unlink" /\ req[r].sfid # NULL /\ IsDone(req[r])) =>
              /\ req[r].status = "OK"
              /\ users[req[r].sid].fid = NULL
        /\ LinkAfterUnlink(r) =>
              /\ req[r].status = "OK"
              /\ users[req[r].sid].fid = req[r].fid
              /\ users[lastDone.sid].fid = NULL

C9_Witness ==
    \E r \in ReqIds : LinkAfterUnlink(r) /\ req[r].status = "OK"


\* C10: a polling attempt of useFarcasterSIWF that starts at time T, is left
\* alone (no cancel, reset or signOut) and whose status checks only ever
\* answer "pending" or not at all, stops polling and reports CHANNEL_TIMEOUT
\* at a tick later than T + pollTimeout and at most one pollInterval after
\* it, however many status checks were answered and however long any of
\* them stalls; while polling goes on the window starts at the time the
\* channel was created, so no tick moves it.
C10_TimeoutWithinOneInterval ==
    /\ isPolling =>
          /\ pollStartTime = attempt.start
          /\ now - pollStartTime <= pollTimeout + pollInterval
    /\ attempt.timeoutAt # NULL =>
          /\ attempt.timeoutAt - attempt.start > pollTimeout
          /\ attempt.timeoutAt - attempt.start <= pollTimeout + pollInterval
    /\ (/\ attempt.clean
        /\ attempt.start # NULL
        /\ now >= attempt.start + pollTimeout + pollInterval
        /\ \A t \in timers : t.nextFire > now)
          => attempt.timeoutAt # NULL /\ ~isPolling

C10_Witness ==
    /\ attempt.clean
    /\ attempt.timeoutAt # NULL
    /\ now >= attempt.start + pollTimeout + pollInterval
    /\ error = "CHANNEL_TIMEOUT"
    /\ ~isPolling
    /\ pollStartTime = NULL
    /\ \E c \in Channels : statusInFlight[c] >= 2


\* C11: once cancel() has been called while the hook was polling a channel,
\* the hook sends no further channel-status request and no verifySignature
\* request for that channel.
C11_NoRequestsAfterCancel ==
    [][ (attempt.cancelled /\ channelsCreated' = channelsCreated) =>
            /\ statusInFlight'[channelsCreated] <= statusInFlight[channelsCreated]
            /\ verifyInFlight'[channelsCreated] <= verifyInFlight[channelsCreated]
      ]_vars


\* C12: while cancelledRef is set no tick sends a request, so every
\* channel-status request then in flight was in flight when cancel() was
\* called; the result of such a request is discarded, that is, no step taken
\* while cancelledRef is set sends a verifySignature request (from which alone
\* user, session and onSuccess could follow).
C12_InFlightResultDiscarded ==
    [][ cancelledRef =>
            \A c \in Channels : verifyInFlight'[c] <= verifyInFlight[c] ]_vars


\* C13: the channel-status requests of one polling instance are strictly
\* sequential: at no time are two of them in flight for the same channel.
C13_StatusRequestsSequential ==
    \A c \in Channels : statusInFlight[c] <= 1


\* C14: a hook instance has at most one channel and one poll timer at any
\* time: counting the create-channel requests it has in flight and the
\* interval timers it has started and not cleared, there is never more than
\* one.
C14_OneChannelOneTimer ==
    awaitingChannel + Cardinality(timers) <= 1


\* C15: createChannel() of a hook that already holds a user and a session
\* starts nothing, and a createChannel() whose session lookup returns a
\* session leaves the hook authenticated without sending a create-channel
\* request, creating a channel or starting a poll timer.
C15_SessionShortCircuits ==
    [][ /\ (user # NULL /\ session # NULL) =>
              /\ awaitingSession' <= awaitingSession
              /\ awaitingChannel' <= awaitingChannel \/ awaitingSession' < awaitingSession
        /\ (awaitingSession' < awaitingSession /\ user = NULL /\ user' # NULL) =>
              /\ session' # NULL
              /\ awaitingChannel' = awaitingChannel
              /\ channelsCreated' = channelsCreated
              /\ timers' = timers
              /\ pollingRef' = pollingRef
      ]_vars

C15_Witness ==
    /\ calls = 1
    /\ user # NULL
    /\ session # NULL
    /\ ~isCreatingChannel
    /\ awaitingSession = 0
    /\ awaitingChannel = 0
    /\ channelsCreated = 0
    /\ timers = {}


\* ------------------------------------- sign-in flow: the hook and its server
\* The hook of a page talking to the core plugin: a verifySignature call of
\* the hook is a verify-signature request of the server, and the response
\* the hook sees is the response of that request.  The flow is the one a
\* page goes through when it is left to itself: one createChannel() per page
\* load, and every call answered before the clock moves on.

\* A verifySignature call of the hook reaches the server.
F_Request(r) ==
    /\ started < MaxStarted
    /\ \E c \in Channels : verifyInFlight[c] > 0
    /\ AllIdle
    /\ VS_Start(r)

F_Step(r) ==
    \/ VS_Verify(r)
    \/ VS_FindUser(r)
    \/ VS_Update(r)
    \/ VS_Create(r)
    \/ VS_CreateSession(r)

\* What better-fetch hands to the hook for a finished request: data, an
\* error object, or an exception when the response never arrives.
FlowResponses(rq) ==
    { IF rq.status = "OK" THEN "ok" ELSE "error", "throws" }

\* The response of the request reaches the hook.
F_Response(r, c) ==
    /\ req[r].kind = "verifySignature"
    /\ req[r].pc = "done"
    /\ \E resp \in FlowResponses(req[r]) : VerifySettled(c, resp)
    /\ req' = [req EXCEPT ![r] = IdleReq]
    /\ lastDone' = Summary(req[r])
    /\ UNCHANGED << plugin, uniqueFid, users, accounts, sessions, verification,
                    issued, clock, started, consumedTrue >>

F_CreateChannel ==
    /\ calls = 0
    /\ H_CreateChannel

F_AdvanceTime ==
    /\ awaitingSession = 0
    /\ awaitingChannel = 0
    /\ \A c \in Channels : statusInFlight[c] = 0 /\ verifyInFlight[c] = 0
    /\ AllIdle
    /\ H_AdvanceTime

\* The page is loaded again: a new instance of the hook, with nothing left
\* of the old one.
F_Mount ==
    /\ calls > 0
    /\ awaitingSession = 0
    /\ awaitingChannel = 0
    /\ \A c \in Channels : statusInFlight[c] = 0 /\ verifyInFlight[c] = 0
    /\ AllIdle
    /\ calls' = 0
    /\ isCreatingChannel' = FALSE
    /\ isPolling' = FALSE
    /\ isVerifying' = FALSE
    /\ isSigningOut' = FALSE
    /\ error' = "none"
    /\ user' = NULL
    /\ session' = NULL
    /\ channelUrl' = NULL
    /\ channelToken' = NULL
    /\ pollingRef' = NULL
    /\ pollStartTime' = NULL
    /\ cancelledRef' = FALSE
    /\ timers' = {}
    /\ awaitingSignOut' = 0
    /\ attempt' = NoAttempt
    /\ UNCHANGED << serverVars, isLinking, now, channelsCreated, awaitingSession,
                    awaitingChannel, statusInFlight, verifyInFlight >>

NextFlow ==
    \/ F_Mount
    \/ F_CreateChannel
    \/ H_SessionSettle
    \/ H_ChannelSettle
    \/ \E t \in timers : H_Tick(t)
    \/ \E c \in Channels : H_StatusSettle(c)
    \/ \E r \in ReqIds : F_Request(r)
    \/ \E r \in ReqIds : F_Step(r)
    \/ \E r \in ReqIds, c \in Channels : F_Response(r, c)
    \/ F_AdvanceTime

InitFlow ==
    /\ plugin = "core"
    /\ uniqueFid \in BOOLEAN
    /\ ServerInit
    /\ HookInit

SpecFlow == InitFlow /\ [][NextFlow]_vars


\* C16: in the sign-in flow (create-channel, channel-status answering
\* pending some number of times and then completed, verify-signature),
\* every channel leads to at most one verify-signature request, a flow whose
\* verify-signature succeeds for fid f leaves exactly one user record with
\* fid f, the first such flow leaves exactly one session, and a repeated
\* flow for the same fid leaves still exactly one user record with that fid.
C16_FlowOneUserOneSession ==
    /\ started <= channelsCreated
    /\ Len(sessions) <= started
    /\ \A f \in Fids : Cardinality(UsersWithFid(f)) <= 1
    /\ (lastDone.kind = "verifySignature" /\ lastDone.ok) =>
          /\ Cardinality(UsersWithFid(lastDone.fid)) = 1
          /\ Len(sessions) >= 1
          /\ started = 1 => Len(sessions) = 1

\* The second flow for fid 2, which no user had at the start, has ended
\* signed in, after a channel-status answer that was not yet completed.
C16_Witness ==
    /\ started = 2
    /\ channelsCreated = 2
    /\ lastDone.kind = "verifySignature"
    /\ lastDone.ok
    /\ lastDone.fid = 2
    /\ Len(sessions) = 2
    /\ sessions[1] = sessions[2]
    /\ users[sessions[2]].fid = 2
    /\ Cardinality(UsersWithFid(2)) = 1
    /\ user # NULL
    /\ session # NULL
    /\ now >= attempt.start + 2 * pollInterval


\* C17: every verify-signature request that succeeds has added one session
\* to the session table in the step that made it succeed, and the session it
\* returns is that new one, whatever sessions the user already had.
C17_FreshSessionPerSignIn ==
    [][ \A r \in ReqIds :
          ( /\ req[r].kind = "verifySignature"
            /\ req[r].status # "OK"
            /\ req'[r].status = "OK" )
          => /\ Len(sessions') = Len(sessions) + 1
             /\ \A i \in 1..Len(sessions) : sessions'[i] = sessions[i]
             /\ req'[r].session = Len(sessions')
             /\ sessions'[Len(sessions')] = req'[r].user
      ]_vars

\* The second successful sign-in of one user: two sessions, both theirs.
C17_Witness ==
    /\ Len(sessions) = 2
    /\ sessions[1] = sessions[2]
    /\ \E r \in ReqIds :
          /\ req[r].kind = "verifySignature"
          /\ IsDone(req[r])
          /\ req[r].status = "OK"
          /\ req[r].session = 2
          /\ req[r].user = sessions[1]


\* C18: a verify-signature request whose createSession call returned null or
\* threw ends with INTERNAL_SERVER_ERROR and without a session cookie; the
\* failing step writes nothing, so the user record the request created or
\* updated stays as the request left it.
C18_SessionFailureIsFatal ==
    /\ [](\A r \in ReqIds :
            ( /\ req[r].kind = "verifySignature"
              /\ req[r].sessionCalled
              /\ req[r].session = NULL )
            => /\ IsDone(req[r])
               /\ req[r].status = "INTERNAL_SERVER_ERROR"
               /\ ~req[r].cookie
               /\ req[r].user \in UserIds
               /\ users[req[r].user].fid = req[r].fid)
    /\ [][ \A r \in ReqIds :
             ( /\ req[r].kind = "verifySignature"
               /\ req[r].pc = "createSession"
               /\ req'[r].sessionCalled
               /\ req'[r].session = NULL )
             => users' = users /\ sessions' = sessions /\ accounts' = accounts
         ]_vars

\* createSession failed for a request that had just created the user.
C18_Witness ==
    \E r \in ReqIds :
        /\ req[r].kind = "verifySignature"
        /\ IsDone(req[r])
        /\ req[r].wroteUser
        /\ req[r].sessionCalled
        /\ req[r].session = NULL
        /\ req[r].status = "INTERNAL_SERVER_ERROR"
        /\ req[r].message = "Failed to create session"
        /\ req[r].existing = NULL
        /\ req[r].user = Len(users)
        /\ users[req[r].user].fid = req[r].fid
        /\ users[req[r].user].name = req[r].respName


\* C19: a /farcaster/verify request whose consume() returned false ends with
\* UNAUTHORIZED without a relay verification, a user, an account or a
\* session; relay verification and everything after it happen only for a
\* request whose nonce consume() accepted, and with requests handled one
\* after another a nonce is accepted once, so the sessions created never
\* outnumber the nonces accepted.
C19_RefusedNonceStopsRequest ==
    /\ \A r \in ReqIds :
          req[r].kind = "legacyVerify" =>
             /\ (IsDone(req[r]) /\ req[r].relay = "none") =>
                   /\ req[r].status = "UNAUTHORIZED"
                   /\ req[r].message = "Invalid or expired nonce."
                   /\ ~req[r].wroteUser
                   /\ ~req[r].sessionCalled
                   /\ req[r].session = NULL
                   /\ ~req[r].cookie
             /\ ( \/ req[r].pc \in {"verify", "findUser", "create", "createSession"}
                  \/ req[r].relay # "none"
                  \/ req[r].wroteUser
                  \/ req[r].sessionCalled ) =>
                   /\ HasNoncePrefix(req[r].nonce)
                   /\ consumedTrue[req[r].nonce] = 1
    /\ \A n \in NonceIds : consumedTrue[n] <= 1
    /\ plugin = "legacy" =>
          /\ Len(sessions) <= Cardinality({ n \in NonceIds : consumedTrue[n] = 1 })
          /\ Len(users) <= 2 + Cardinality({ n \in NonceIds : consumedTrue[n] = 1 })
          /\ Cardinality(accounts) <= 1 + Cardinality({ n \in NonceIds : consumedTrue[n] = 1 })

\* A nonce that bought a session is presented again and refused.
C19_Witness ==
    /\ lastDone.kind = "legacyVerify"
    /\ lastDone.ok
    /\ Len(sessions) = 1
    /\ \E r \in ReqIds :
          /\ req[r].kind = "legacyVerify"
          /\ IsDone(req[r])
          /\ HasNoncePrefix(req[r].nonce)
          /\ consumedTrue[req[r].nonce] = 1
          /\ req[r].relay = "none"
          /\ req[r].status = "UNAUTHORIZED"
          /\ Cardinality({ n \in NonceIds : consumedTrue[n] = 1 }) = 1


ConsumeReturned(rq) ==
    rq.kind = "legacyVerify" /\ rq.pc \notin {"consumeFind", "consumeDelete"}

RecordsOf(n) == { v \in verification : v.identifier = n }

\* What consume() does once it has looked the identifier up: without a
\* record it returns false and changes nothing; with one, the record is
\* deleted whether or not it has expired and the call returns true exactly
\* when now <= expiresAt.
ConsumeLookupContract ==
    \A r \in ReqIds :
       /\ (req[r].pc = "consumeFind" /\ req'[r].pc # "consumeFind") =>
             /\ verification' = verification
             /\ consumedTrue' = consumedTrue
             /\ IF RecordsOf(req[r].nonce) = {}
                THEN req'[r].status = "UNAUTHORIZED" /\ req'[r].relay = "none"
                ELSE req'[r].pc = "consumeDelete"
       /\ (req[r].pc = "consumeDelete" /\ req'[r].pc # "consumeDelete") =>
             /\ \A v \in verification' : v.id # req[r].rec
             /\ verification' \subseteq verification
             /\ IF clock <= req[r].recExp
                THEN /\ consumedTrue'[req[r].nonce] = consumedTrue[req[r].nonce] + 1
                     /\ req'[r].pc = "verify"
                ELSE /\ consumedTrue' = consumedTrue
                     /\ req'[r].status = "UNAUTHORIZED"
                     /\ req'[r].relay = "none"

\* consume() returns for request r in this step.
ConsumeReturns(r) == ~ConsumeReturned(req[r]) /\ ConsumeReturned(req'[r])

\* C20 as stated: when consume(identifier) returns, no record with that
\* identifier is left in the store; without a record it returned false and
\* changed nothing; with one it deleted it and returned true exactly when
\* now <= expiresAt.
C20_ConsumeContract ==
    [][ /\ ConsumeLookupContract
        /\ \A r \in ReqIds :
             ConsumeReturns(r) =>
                \A v \in verification' : v.identifier # req'[r].nonce
      ]_vars

\* C20, amended: the same for an identifier that carries the
\* 'farcaster-nonce:' prefix; for any other identifier consume() returns
\* false without reading or changing the store, also when a record with
\* that identifier exists.
C20_ConsumePrefixedContract ==
    [][ /\ ConsumeLookupContract
        /\ \A r \in ReqIds :
             ConsumeReturns(r) =>
                IF HasNoncePrefix(req'[r].nonce)
                THEN \A v \in verification' : v.identifier # req'[r].nonce
                ELSE /\ req'[r].status = "UNAUTHORIZED"
                     /\ req'[r].relay = "none"
                     /\ verification' = verification
                     /\ consumedTrue' = consumedTrue
      ]_vars

\* consume() has found an expired record: the record is gone and the call
\* returned false; the record of the other feature is still there.
C20_Witness ==
    /\ ForeignRecord \in verification
    /\ \E r \in ReqIds :
          /\ req[r].kind = "legacyVerify"
          /\ IsDone(req[r])
          /\ req[r].rec # NULL
          /\ clock > req[r].recExp
          /\ req[r].status = "UNAUTHORIZED"
          /\ consumedTrue[req[r].nonce] = 0
          /\ \A v \in verification : v.id # req[r].rec


\* ============================================== useFarcasterCoreLink
\* The link hook keeps isLinking, isPolling, error, user, channelUrl and the
\* three refs; the remaining state of useFarcasterSIWF is not part of it.
\* verifyInFlight counts its farcaster.link(...) requests.
siwfOnly ==
    << isCreatingChannel, isVerifying, isSigningOut, session, channelToken,
       awaitingSession, awaitingSignOut, attempt >>

\* link(), up to its await
HL_Link ==
    /\ calls < MaxCalls
    /\ calls' = calls + 1
    /\ awaitingChannel < MaxInFlight
    /\ isLinking' = TRUE
    /\ error' = "none"
    /\ cancelledRef' = FALSE
    /\ awaitingChannel' = awaitingChannel + 1
    /\ UNCHANGED << serverVars, siwfOnly, now, isPolling, user, channelUrl,
                    pollingRef, pollStartTime, timers, channelsCreated,
                    statusInFlight, verifyInFlight >>

\* link(): farcaster.createChannel({}) has settled
HL_ChannelSettle ==
    /\ awaitingChannel > 0
    /\ awaitingChannel' = awaitingChannel - 1
    /\ \E resp \in ChannelOutcomes :
          IF resp = "channel"
          THEN LET c == channelsCreated + 1 IN
               /\ channelsCreated < MaxChannels
               /\ channelsCreated' = c
               /\ channelUrl' = c
               /\ isPolling' = TRUE
               /\ pollStartTime' = now
               /\ pollingRef' = c
               /\ timers' = timers \cup { [ch |-> c, nextFire |-> now + pollInterval] }
               /\ UNCHANGED << error, isLinking >>
          ELSE /\ error' = IF resp = "error" THEN "NETWORK_ERROR" ELSE "UNKNOWN"
               /\ isLinking' = FALSE
               /\ UNCHANGED << channelsCreated, channelUrl, isPolling,
                               pollStartTime, pollingRef, timers >>
    /\ UNCHANGED << serverVars, siwfOnly, calls, now, user, cancelledRef,
                    statusInFlight, verifyInFlight >>

\* One run of the link hook's interval callback, up to its await
HL_Tick(t) ==
    /\ t \in timers
    /\ t.nextFire = now
    /\ LET rearmed == (timers \ {t}) \cup { [t EXCEPT !.nextFire = now + pollInterval] } IN
       IF cancelledRef
       THEN /\ StopPolling(rearmed)
            /\ UNCHANGED << error, channelUrl, isLinking, statusInFlight >>
       ELSE IF TimedOut(pollStartTime, now)
       THEN /\ StopPolling(rearmed)
            /\ error' = "CHANNEL_TIMEOUT"
            /\ channelUrl' = NULL
            /\ isLinking' = FALSE
            /\ UNCHANGED statusInFlight
       ELSE /\ statusInFlight[t.ch] < MaxInFlight
            /\ statusInFlight' = [statusInFlight EXCEPT ![t.ch] = @ + 1]
            /\ timers' = rearmed
            /\ UNCHANGED << pollingRef, pollStartTime, isPolling, error,
                            channelUrl, isLinking >>
    /\ UNCHANGED << serverVars, siwfOnly, calls, now, user, cancelledRef,
                    channelsCreated, awaitingChannel, verifyInFlight >>

\* The link hook's interval callback after channelStatus(...) has settled for
\* channel c with response resp: if (statusResponse.error) return, whatever
\* the error says.
HL_StatusSettled(c, resp) ==
    /\ statusInFlight[c] > 0
    /\ statusInFlight' = [statusInFlight EXCEPT ![c] = @ - 1]
    /\   CASE resp \in {"failed", "expired"} ->
                 UNCHANGED << timers, pollingRef, pollStartTime, isPolling, error,
                              channelUrl, isLinking, verifyInFlight >>
            [] resp = "throws" ->
                 /\ StopPolling(timers)
                 /\ error' = "POLLING_FAILED"
                 /\ channelUrl' = NULL
                 /\ isLinking' = FALSE
                 /\ UNCHANGED verifyInFlight
            [] OTHER ->
                 IF Completed(StatusData(resp))
                 THEN /\ verifyInFlight[c] < MaxInFlight
                      /\ StopPolling(timers)
                      /\ verifyInFlight' = [verifyInFlight EXCEPT ![c] = @ + 1]
                      /\ UNCHANGED << error, channelUrl, isLinking >>
                 ELSE UNCHANGED << timers, pollingRef, pollStartTime, isPolling,
                                   error, channelUrl, isLinking, verifyInFlight >>
    /\ UNCHANGED << serverVars, siwfOnly, calls, now, user, cancelledRef,
                    channelsCreated, awaitingChannel >>

HL_StatusSettle(c) == \E resp \in StatusOutcomes : HL_StatusSettled(c, resp)

\* The link hook's interval callback after farcaster.link(...) has settled
HL_LinkSettle(c) ==
    /\ verifyInFlight[c] > 0
    /\ verifyInFlight' = [verifyInFlight EXCEPT ![c] = @ - 1]
    /\ channelUrl' = NULL
    /\ isLinking' = FALSE
    /\ \E resp \in VerifyOutcomes :
          IF resp = "ok"
          THEN /\ user' = 1
               /\ UNCHANGED << timers, pollingRef, pollStartTime, isPolling, error >>
          ELSE /\ StopPolling(timers)
               /\ error' = IF resp = "error" THEN "INVALID_SIGNATURE" ELSE "POLLING_FAILED"
               /\ UNCHANGED user
    /\ UNCHANGED << serverVars, siwfOnly, calls, now, cancelledRef,
                    channelsCreated, awaitingChannel, statusInFlight >>

\* cancel() of the link hook
HL_Cancel ==
    /\ calls < MaxCalls
    /\ calls' = calls + 1
    /\ cancelledRef' = TRUE
    /\ StopPolling(timers)
    /\ channelUrl' = NULL
    /\ error' = "none"
    /\ isLinking' = FALSE
    /\ UNCHANGED << serverVars, siwfOnly, now, user, channelsCreated,
                    awaitingChannel, statusInFlight, verifyInFlight >>

\* reset() of the link hook
HL_Reset ==
    /\ calls < MaxCalls
    /\ calls' = calls + 1
    /\ StopPolling(timers)
    /\ cancelledRef' = FALSE
    /\ isLinking' = FALSE
    /\ error' = "none"
    /\ user' = NULL
    /\ channelUrl' = NULL
    /\ UNCHANGED << serverVars, siwfOnly, now, channelsCreated,
                    awaitingChannel, statusInFlight, verifyInFlight >>

NextLink ==
    \/ HL_Link
    \/ HL_ChannelSettle
    \/ \E t \in timers : HL_Tick(t)
    \/ \E c \in Channels : HL_StatusSettle(c)
    \/ \E c \in Channels : HL_LinkSettle(c)
    \/ HL_Cancel
    \/ HL_Reset
    \/ H_AdvanceTime

InitLink ==
    /\ plugin = "core"
    /\ uniqueFid = TRUE
    /\ ServerInit
    /\ HookInit

SpecLink == InitLink /\ [][NextLink]_vars

\* C21: in both hooks, when a channel-status check answers that the channel
\* has expired, that step leaves polling stopped, the error field holding
\* CHANNEL_EXPIRED, and no timer that would poll the channel again.
C21_ExpiryStopsPolling ==
    [][ \A c \in Channels :
          (StatusSettled(c, "expired") \/ HL_StatusSettled(c, "expired"))
             => /\ isPolling' = FALSE
                /\ error' = "CHANNEL_EXPIRED"
                /\ \A t \in timers' : t.ch # c
      ]_vars


\* C22: the step of a verify-signature request that creates the user of a
\* FID seen for the first time adds exactly one row, with the fid set,
\* emailVerified = true, the email of the resolver or else
\* '{fid}@farcaster.local', and as name the first present of resolver name,
\* displayName, username, 'Farcaster User {fid}'; no other step of the
\* request adds a row.
C22_NewUserFields ==
    [][ \A r \in ReqIds :
          (req[r].kind = "verifySignature" /\ req'[r] # req[r]) =>
             IF req[r].pc = "create" /\ req'[r].pc = "createSession"
             THEN /\ Len(users') = Len(users) + 1
                  /\ \A i \in UserIds : users'[i] = users[i]
                  /\ req'[r].user = Len(users')
                  /\ LET u == users'[Len(users')]
                         f == req[r].fid
                         p == req[r].profile IN
                     /\ u.fid = f
                     /\ u.emailVerified = TRUE
                     /\ \E d \in ResolvedData :
                          /\ u.email = IF d.email # "" THEN d.email
                                       ELSE DefaultEmail(f)
                          /\ u.name = IF d.name # "" THEN d.name
                                      ELSE IF p.displayName # "" THEN p.displayName
                                      ELSE IF p.username # "" THEN p.username
                                      ELSE DefaultName(f)
             ELSE Len(users') = Len(users)
      ]_vars

\* A sign-in for a new FID has succeeded and the user carries the username
\* as name and the generated email.
C22_Witness ==
    \E r \in ReqIds :
       /\ req[r].kind = "verifySignature"
       /\ IsDone(req[r])
       /\ req[r].status = "OK"
       /\ req[r].existing = NULL
       /\ req[r].user = Len(users)
       /\ users[req[r].user].fid = req[r].fid
       /\ users[req[r].user].name = "un"
       /\ users[req[r].user].email = DefaultEmail(req[r].fid)
       /\ users[req[r].user].emailVerified


\* C23: in the core plugin no two verify-signature requests that presented
\* the same signed message (the same nonce) have both been given a session.
C23_MessageOneSession ==
    \A r1 \in ReqIds, r2 \in ReqIds :
       ( /\ r1 # r2
         /\ req[r1].kind = "verifySignature"
         /\ req[r2].kind = "verifySignature"
         /\ req[r1].nonce = req[r2].nonce
         /\ IsDone(req[r1])
         /\ req[r1].status = "OK"
         /\ req[r1].session # NULL )
       => ~( /\ IsDone(req[r2])
             /\ req[r2].status = "OK"
             /\ req[r2].session # NULL
             /\ req[r2].session # req[r1].session )


\* C24: in useFarcasterSIWF a status check that fails without reporting
\* expiry (an error response, or a call that throws) leaves the poll timers
\* and isPolling as they were and reports no error.
C24_FailedCheckKeepsPolling ==
    [][ \A c \in Channels :
          (StatusSettled(c, "failed") \/ StatusSettled(c, "throws"))
             => /\ timers' = timers
                /\ isPolling' = isPolling
                /\ error' = error
      ]_vars


\* ------------------------------------------------- time without a horizon
\* Once the clock of the model has reached MaxTime, a further second moves
\* every recorded time one second into the past instead; a time that would
\* leave the window stays at its edge, which is more than pollTimeout ago.
Earlier(t) == IF t = NULL THEN NULL ELSE IF t > 1 THEN t - 1 ELSE 1

H_TimePasses ==
    /\ now = MaxTime
    /\ \A t \in timers : t.nextFire > now
    /\ timers' = { [t EXCEPT !.nextFire = @ - 1] : t \in timers }
    /\ pollStartTime' = Earlier(pollStartTime)
    /\ attempt' = [attempt EXCEPT !.start = Earlier(@), !.timeoutAt = Earlier(@)]
    /\ UNCHANGED << serverVars, isLinking, calls, now, isCreatingChannel,
                    isPolling, isVerifying, isSigningOut, error, user, session,
                    channelUrl, channelToken, pollingRef, cancelledRef,
                    channelsCreated, awaitingSession, awaitingChannel,
                    statusInFlight, verifyInFlight, awaitingSignOut >>

NextLive == NextHook \/ H_TimePasses

\* Time passes, every timer that is due fires, and every call that has been
\* sent is answered.
Fairness ==
    /\ WF_vars(H_AdvanceTime \/ H_TimePasses)
    /\ \A c \in Channels : WF_vars(\E t \in timers : t.ch = c /\ H_Tick(t))
    /\ WF_vars(H_SessionSettle)
    /\ WF_vars(H_ChannelSettle)
    /\ \A c \in Channels : WF_vars(H_StatusSettle(c))
    /\ \A c \in Channels : WF_vars(H_VerifySettle(c))
    /\ WF_vars(H_SignOutSettle)

SpecLive == InitHook /\ [][NextLive]_vars /\ Fairness

\* C25: with timers firing and calls settling, polling always comes to an
\* end (isPolling becomes false), and every channel's poll timer eventually
\* sends no more channel-status requests.
C25_PollingEnds ==
    /\ [](isPolling => <>(~isPolling))
    /\ \A c \in Channels :
          <>[][statusInFlight'[c] <= statusInFlight[c]]_vars


\* ------------------------------------------------ requests that finish
\* A request that has been received is carried through to its response, and
\* the server's clock moves on; nothing obliges a client to send a request.
ServerFairness ==
    /\ WF_vars(\E r \in ReqIds : ReqStep(r))
    /\ WF_vars(\E r \in ReqIds : FinishSeq(r))
    /\ WF_vars(Tick)

SpecSeqFair == Init /\ [][NextSeq]_vars /\ ServerFairness

\* C26: every nonce record that generate() has stored is eventually gone
\* from the store, whether or not it is ever presented to consume().
C26_NonceRecordsRemoved ==
    \A n \in NonceIds :
       [] ( (\E v \in verification : v.id = n)
              => <> ~(\E v \in verification : v.id = n) )


TerminalErrors ==
    {"CHANNEL_TIMEOUT", "CHANNEL_EXPIRED", "INVALID_SIGNATURE", "POLLING_FAILED"}

\* A step of useFarcasterSIWF in which a sign-in attempt fails for good: the
\* timeout branch of a tick, a status check answered 'expired' or thrown, a
\* verifySignature answered with an error or thrown.
TerminalFailure ==
    \/ /\ ~cancelledRef
       /\ TimedOut(pollStartTime, now)
       /\ \E t \in timers : H_Tick(t)
    \/ \E c \in Channels :
          \/ /\ statusInFlight'[c] < statusInFlight[c]
             /\ StatusSettled(c, "expired") \/ StatusSettled(c, "throws")
          \/ /\ verifyInFlight'[c] < verifyInFlight[c]
             /\ VerifySettled(c, "error") \/ VerifySettled(c, "throws")

C28_OnlyDifferingFieldsWritten ==
    \A r \in ReqIds :
       (req[r].kind = "verifySignature" /\ req[r].existing # NULL) =>
          /\ users[req[r].existing].fid = req[r].fid
          /\ req[r].wroteUser =>
                \/ /\ req[r].profile.displayName # ""
                   /\ req[r].profile.displayName # req[r].respName
                \/ /\ req[r].profile.pfpUrl # ""
                   /\ req[r].profile.pfpUrl # req[r].respImage


\* C29: in useFarcasterSIWF a status check starts a verifySignature call only
\* when it is answered 'completed' with message, signature and fid, and that
\* step stops polling; a check answered 'pending', or 'completed' without
\* one of the three, starts no call and leaves polling as it was.
C29_VerifyOnlyWhenComplete ==
    [][ \A c \in Channels :
          /\ ( /\ statusInFlight'[c] < statusInFlight[c]
               /\ StatusSettled(c, "pending") \/ StatusSettled(c, "partial") )
                => /\ verifyInFlight' = verifyInFlight
                   /\ timers' = timers
                   /\ isPolling' = isPolling
                   /\ isVerifying' = isVerifying
          /\ verifyInFlight'[c] > verifyInFlight[c]
                => /\ StatusSettled(c, "completed")
                   /\ isVerifying'
                   /\ ~isPolling'
                   /\ pollingRef' = NULL
      ]_vars

\* A status check has been answered 'completed' and the verifySignature call
\* is on its way.
C29_Witness ==
    \E c \in Channels :
       /\ verifyInFlight[c] = 1
       /\ isVerifying
       /\ ~isPolling
       /\ channelUrl = c


\* C30: cancel() called while polling clears the poll timer, channelUrl and
\* channelToken and sends nothing; called in any other state it changes
\* nothing the hook shows and nothing that is in flight.
C30_CancelOnlyWhilePolling ==
    [][ H_Cancel =>
          /\ awaitingSession' = awaitingSession
          /\ awaitingChannel' = awaitingChannel
          /\ statusInFlight' = statusInFlight
          /\ verifyInFlight' = verifyInFlight
          /\ IF isPolling
             THEN /\ \A t \in timers' : t.ch # pollingRef
                  /\ ~isPolling'
                  /\ channelUrl' = NULL
                  /\ channelToken' = NULL
             ELSE /\ error' = error
                  /\ channelUrl' = channelUrl
                  /\ channelToken' = channelToken
                  /\ timers' = timers
      ]_vars


\* C31: in useFarcasterSIWF a verifySignature response that carries an error
\* is reported as INVALID_SIGNATURE, and a throw of the status call, of the
\* verify call or of what follows it as POLLING_FAILED; either way the step
\* leaves polling stopped, channelUrl and channelToken null, isVerifying
\* false, and user and session as they were.
C31_VerifyFailureReported ==
    [][ \A c \in Channels :
          /\ ( /\ verifyInFlight'[c] < verifyInFlight[c]
               /\ VerifySettled(c, "error") )
                => error' = "INVALID_SIGNATURE"
          /\ ( \/ /\ statusInFlight'[c] < statusInFlight[c]
                  /\ StatusSettled(c, "throws")
               \/ /\ verifyInFlight'[c] < verifyInFlight[c]
                  /\ VerifySettled(c, "throws") \/ VerifySettled(c, "callbackThrows") )
                => error' = "POLLING_FAILED"
          /\ ( \/ /\ statusInFlight'[c] < statusInFlight[c]
                  /\ StatusSettled(c, "throws")
               \/ /\ verifyInFlight'[c] < verifyInFlight[c]
                  /\ \/ VerifySettled(c, "error")
                     \/ VerifySettled(c, "throws")
                     \/ VerifySettled(c, "callbackThrows") )
                => /\ ~isPolling'
                   /\ pollingRef' = NULL
                   /\ channelUrl' = NULL
                   /\ channelToken' = NULL
                   /\ ~isVerifying'
                   /\ user' = user
                   /\ session' = session
      ]_vars


\* C32: no channel has more than one verifySignature call, so never two of
\* them awaiting their response at once.
C32_VerifyAtMostOncePerChannel ==
    \A c \in Channels : verifyInFlight[c] <= 1



\* C33: a terminal outcome is absorbing until the next user action: while
\* CHANNEL_TIMEOUT or CHANNEL_EXPIRED stands reported, or cancel() has
\* completed and createChannel() or reset() has not been called since, no
\* interval callback of the latest channel sets user or session (and so
\* none fires onSuccess), a callback whose request was in flight when the
\* outcome happened included.
C33_TerminalOutcomeAbsorbing ==
    [][ \A c \in Channels, resp \in VerifyOutcomes :
            (/\ verifyInFlight'[c] < verifyInFlight[c]
             /\ c = channelsCreated
             /\ (error \in {"CHANNEL_TIMEOUT", "CHANNEL_EXPIRED"} \/ cancelledRef)
             /\ VerifySettled(c, resp))
                => (user' = user /\ session' = session)
      ]_vars



\* C34: whenever isCreatingChannel, isPolling and isVerifying are all false,
\* channelUrl and channelToken are null: the hook never shows a channel URL
\* while nothing is creating, polling or verifying.
C34_IdleShowsNoChannel ==
    (~isCreatingChannel /\ ~isPolling /\ ~isVerifying) =>
        (channelUrl = NULL /\ channelToken = NULL)



\* C35: once stopPolling() has run and no interval has been installed since
\* (pollingRef holds none), no interval callback of the hook sends a
\* channel-status request, whatever createChannel() and cancel() calls came
\* before.
C35_NoStatusRequestAfterStop ==
    [][ pollingRef = NULL =>
            \A c \in Channels : statusInFlight'[c] <= statusInFlight[c] ]_vars



\* C36: the user object a successful verify-signature request answers with
\* (and puts in the session cookie) equals the user row as it is stored when
\* the request has finished, a name or image update made by that request
\* included.
C36_ReturnedUserIsStoredUser ==
    \A r \in ReqIds :
        (/\ req[r].kind = "verifySignature"
         /\ IsDone(req[r])
         /\ req[r].status = "OK") =>
            /\ req[r].respName = users[req[r].user].name
            /\ req[r].respImage = users[req[r].user].image




\* A /farcaster/verify request whose lookup of the nonce is over and found no
\* record (or whose nonce never got as far as the lookup).
FoundNoRecord(rq) ==
    /\ rq.kind = "legacyVerify"
    /\ rq.pc # "consumeFind"
    /\ rq.rec = NULL

\* C37: /farcaster/verify consumes the nonce before it verifies the
\* signature: a request that is at or past the relay verification has had
\* its nonce accepted and no record of that nonce is left, also when the
\* verification then fails; the record of an accepted nonce never comes
\* back, and a request whose lookup finds no record (so every later request
\* with the same nonce) ends there with UNAUTHORIZED "Invalid or expired
\* nonce.", before any relay verification.
C37_NonceSpentBeforeVerification ==
    /\ \A r \in ReqIds :
          (/\ req[r].kind = "legacyVerify"
           /\ (req[r].pc = "verify" \/ req[r].relay # "none")) =>
              /\ HasNoncePrefix(req[r].nonce)
              /\ req[r].rec # NULL
              /\ consumedTrue[req[r].nonce] = 1
              /\ RecordsOf(req[r].nonce) = {}
    /\ \A n \in NonceIds : consumedTrue[n] >= 1 => RecordsOf(n) = {}
    /\ \A r \in ReqIds :
          FoundNoRecord(req[r]) =>
              /\ IsDone(req[r])
              /\ req[r].status = "UNAUTHORIZED"
              /\ req[r].message = "Invalid or expired nonce."
              /\ req[r].relay = "none"

\* A request whose nonce was accepted failed the relay verification, and the
\* next request, with the same nonce, was refused at the lookup.
C37_Witness ==
    /\ started = 2
    /\ lastDone.kind = "legacyVerify"
    /\ ~lastDone.ok
    /\ lastDone.fid = NULL
    /\ \E r \in ReqIds :
          /\ req[r].kind = "legacyVerify"
          /\ IsDone(req[r])
          /\ HasNoncePrefix(req[r].nonce)
          /\ consumedTrue[req[r].nonce] = 1
          /\ req[r].rec = NULL
          /\ req[r].relay = "none"
          /\ req[r].status = "UNAUTHORIZED"
          /\ req[r].message = "Invalid or expired nonce."
          /\ RecordsOf(req[r].nonce) = {}



\* C38: when signOut() completes, whether authClient.signOut() succeeded or
\* failed, polling is stopped (isPolling is false and no interval is
\* installed), user, session, error, channelUrl and channelToken are null
\* and isSigningOut is false; the step that completes it, in which onSignOut
\* fires, is taken once for each call.
C38_SignOutLeavesSignedOut ==
    [][ awaitingSignOut' < awaitingSignOut =>
            /\ awaitingSignOut' = awaitingSignOut - 1
            /\ user' = NULL
            /\ session' = NULL
            /\ error' = "none"
            /\ channelUrl' = NULL
            /\ channelToken' = NULL
            /\ ~isSigningOut'
            /\ ~isPolling'
            /\ pollingRef' = NULL
            /\ timers' = {}
      ]_vars

=============================================================================
